---- MODULE Spec2Model ----
(***************************************************************************)
(* Model of the shipment-management backend (FastAPI + SQLAlchemy):        *)
(*   - the geographic reference store and the carrier registry (seeded),   *)
(*   - input validation of the country selector (CountryOneField),         *)
(*   - address resolution (AddressIn.check_if_country_state_city_exists),  *)
(*   - carrier validation (ShipmentIn.validate_carrier),                   *)
(*   - POST /shipment/ (create_shipment, create_shipment_in_db).           *)
(*   - the shipment_date validator (ShipmentIn.check_if_not_in_future),    *)
(*   - GET /shipment/ (retrive_shipments, retrive_shipments_from_db).      *)
(* Text that the code converts or matches character by character (iso      *)
(* codes, tracking numbers) is a sequence of one-character strings; text   *)
(* that is only compared for equality (names, numeric codes) is a string.  *)
(* Python's None / empty value of an optional text field is the empty      *)
(* string "" or the empty sequence <<>> (both falsy in Python).            *)
(***************************************************************************)
EXTENDS Integers, Sequences, FiniteSets, TLC

VARIABLES
    addresses,   \* table "addresses": sequence of rows in insertion order
    shipments,   \* table "shipments"
    packages,    \* table "packages"
    pc,          \* position of the POST /shipment/ handler
    body,        \* the request body: list[ShipmentIn]
    cariers,     \* result of the first asyncio.gather (validate_carrier)
    result,      \* result of the second asyncio.gather (AddressId per item)
    response,    \* the HTTP response of the last finished POST
    pre,         \* the store as it was when the request arrived
    flushed,     \* the rows the request's session has flushed, in order
    session,     \* the session of create_shipment_in_db while it is open
    reference,   \* tables "countries", "states", "cities", "carriers"
    ain,         \* address resolver: the raw address object of a request
    aphase,      \* address resolver: received / rejected / parsed / resolved
    aparsed,     \* address resolver: the validated AddressIn
    aout,        \* address resolver: outcome of the resolution
    cin,         \* carrier validation: the ShipmentIn under validation
    cout,        \* carrier validation: what validate_carrier produced
    din,         \* date validation: the parsed shipment_date
    dnow,        \* date validation: datetime.now(timezone.utc)
    dout,        \* date validation: outcome of check_if_not_in_future
    gpc,         \* position of the GET /shipment/ handler
    query,       \* GET: the query parameters of the request
    total,       \* GET: result of the count statement
    gshipments,  \* GET: rows of the data statement
    gresponse,   \* GET: the HTTP response of the last finished GET
    statements   \* GET: the statements the request has executed so far

vars == <<reference, addresses, shipments, packages, pc, body, cariers,
          result, response, pre, flushed, session, ain, aphase, aparsed, aout,
          cin, cout, din, dnow, dout, gpc, query, total, gshipments, gresponse,
          statements>>

storeVars == <<addresses, shipments, packages>>
postVars == <<pc, body, cariers, result, response, pre, flushed, session>>
addrVars == <<ain, aphase, aparsed, aout>>
valVars == <<cin, cout, din, dnow, dout>>
getVars == <<gpc, query, total, gshipments, gresponse, statements>>

(***************************************************************************)
(* Bounds of the model.                                                    *)
(***************************************************************************)
MaxBatch == 3
MaxStored == 4
\* longest run of digits among the tracking numbers tried
MaxDigits == 21
\* latest hour on the clock of the dates and of the current time
MaxHour == 6
\* highest page number a GET asks for
MaxPage == 3

(***************************************************************************)
(* Characters.                                                             *)
(***************************************************************************)
LowerLetters == <<"a","b","c","d","e","f","g","h","i","j","k","l","m",
                  "n","o","p","q","r","s","t","u","v","w","x","y","z">>
UpperLetters == <<"A","B","C","D","E","F","G","H","I","J","K","L","M",
                  "N","O","P","Q","R","S","T","U","V","W","X","Y","Z">>
Digits == {"0","1","2","3","4","5","6","7","8","9"}

Range(f) == {f[i] : i \in DOMAIN f}

\* str.upper() on one character
UpperChar(c) ==
    IF \E i \in DOMAIN LowerLetters : LowerLetters[i] = c
    THEN UpperLetters[CHOOSE i \in DOMAIN LowerLetters : LowerLetters[i] = c]
    ELSE c

\* str.upper()
upper(s) == [i \in DOMAIN s |-> UpperChar(s[i])]

\* str.lower() on one character, and str.lower()
LowerChar(c) ==
    IF \E i \in DOMAIN UpperLetters : UpperLetters[i] = c
    THEN LowerLetters[CHOOSE i \in DOMAIN UpperLetters : UpperLetters[i] = c]
    ELSE c

lower(s) == [i \in DOMAIN s |-> LowerChar(s[i])]

(***************************************************************************)
(* Geographic reference store, as the seeding script leaves it: every      *)
(* State carries its Country's id, every City its State's id and that      *)
(* State's Country's id; iso codes pass CountryIn.uppercase_country_code.  *)
(***************************************************************************)
\* CountryIn.uppercase_country_code
CountryIn_uppercase_country_code(value) == upper(value)

\* create_country: one row per country of the dataset
create_country(id, item) ==
    [id |-> id, name |-> item.name, code |-> item.numeric_code,
     iso2 |-> CountryIn_uppercase_country_code(item.iso2),
     iso3 |-> CountryIn_uppercase_country_code(item.iso3)]

SeedCountries ==
    { create_country(1, [name |-> "United States", numeric_code |-> "840",
                         iso2 |-> <<"U","S">>, iso3 |-> <<"U","S","A">>]),
      create_country(2, [name |-> "Canada", numeric_code |-> "124",
                         iso2 |-> <<"C","A">>, iso3 |-> <<"C","A","N">>]) }

\* create_state(session, item, country.id)
SeedStates ==
    { [id |-> 11, name |-> "Texas",      country_id |-> 1],
      [id |-> 12, name |-> "California", country_id |-> 1],
      [id |-> 13, name |-> "Ontario",    country_id |-> 2] }

\* City(name, state_id = state.id, country_id = country.id)
SeedCities ==
    { [id |-> 21, name |-> "Paris",   state_id |-> 11, country_id |-> 1],
      [id |-> 22, name |-> "Austin",  state_id |-> 11, country_id |-> 1],
      [id |-> 23, name |-> "Fresno",  state_id |-> 12, country_id |-> 1],
      [id |-> 24, name |-> "Paris",   state_id |-> 13, country_id |-> 2],
      [id |-> 25, name |-> "Toronto", state_id |-> 13, country_id |-> 2] }

\* The reference tables as the request path reads them
Countries == reference.countries
States == reference.states
Cities == reference.cities

CountryById(id) == CHOOSE c \in Countries : c.id = id
StateById(id) == CHOOSE s \in States : s.id = id
CityById(id) == CHOOSE c \in Cities : c.id = id

\* Result.scalars().first(): a row of the result set (None when it is empty is
\* tested by the callers before first is used)
first(rows) == CHOOSE r \in rows : TRUE

(***************************************************************************)
(* CountryOneField: validation of the country selector of an address.      *)
(***************************************************************************)
\* field validator (mode="before") on iso2 and iso3
uppercase_country_code_identity(value) == value

uppercase_country_code(value) == IF value # <<>> THEN upper(value) ELSE <<>>

\* model validator (mode="after"): TRUE when it raises CountryParametrError
check_if_no_search_params_all(self) ==
    ~ (self.name # "" /\ self.code # "" /\ self.iso2 # <<>> /\ self.iso3 # <<>>)

check_if_no_search_params(self) ==
    ~ (self.name # "" \/ self.code # "" \/ self.iso2 # <<>> \/ self.iso3 # <<>>)

\* Construction of a CountryOneField from the request's country object
CountryOneField(raw) ==
    LET self == [name |-> raw.name, code |-> raw.code,
                 iso2 |-> uppercase_country_code(raw.iso2),
                 iso3 |-> uppercase_country_code(raw.iso3)]
    IN IF check_if_no_search_params(self)
       THEN [ok |-> FALSE, error |-> "CountryParametrError", status_code |-> 400,
             value |-> self]
       ELSE [ok |-> TRUE, error |-> "", status_code |-> 0, value |-> self]

\* get_search_params that walks the fields from the last to the first
get_search_params_last_first(self) ==
    IF self.iso3 # <<>> THEN [field |-> "iso3", value |-> self.iso3]
    ELSE IF self.iso2 # <<>> THEN [field |-> "iso2", value |-> self.iso2]
    ELSE IF self.code # "" THEN [field |-> "code", value |-> self.code]
    ELSE [field |-> "name", value |-> self.name]

\* The first non-null search parameter, in model_dump() order
get_search_params(self) ==
    IF self.name # "" THEN [field |-> "name", value |-> self.name]
    ELSE IF self.code # "" THEN [field |-> "code", value |-> self.code]
    ELSE IF self.iso2 # <<>> THEN [field |-> "iso2", value |-> self.iso2]
    ELSE [field |-> "iso3", value |-> self.iso3]

\* AddressIn.check_address_line_2: value if value else None
check_address_line_2(value) == IF value # "" THEN value ELSE ""

\* Construction of an AddressIn from the request's address object
AddressIn(raw) ==
    LET country == CountryOneField(raw.country)
    IN [ok |-> country.ok, error |-> country.error,
        status_code |-> country.status_code,
        value |-> [postal_code |-> raw.postal_code,
                   address_line_1 |-> raw.address_line_1,
                   address_line_2 |-> check_address_line_2(raw.address_line_2),
                   city |-> raw.city, state |-> raw.state,
                   country |-> country.value]]

(***************************************************************************)
(* Address resolution.                                                     *)
(***************************************************************************)
\* An exception of app.exceptions.address (each is an HTTPException, 400)
AddressError(kind, queries) ==
    [kind |-> kind, status_code |-> 400, city_id |-> 0, state_id |-> 0,
     country_id |-> 0, queries |-> queries]

AddressId(city, state, country, queries) ==
    [kind |-> "AddressId", status_code |-> 0, city_id |-> city.id,
     state_id |-> state.id, country_id |-> country.id, queries |-> queries]

\* A resolver that looks each name up on its own and checks no parent
check_by_name_only(self) ==
    LET sp == get_search_params(self.country)
        countries == {c \in Countries : c[sp.field] = sp.value}
        states == {s \in States : s.name = self.state}
        cities == {c \in Cities : c.name = self.city}
    IN IF countries = {} THEN AddressError("CountryNotFoundError", <<"countries">>)
       ELSE IF states = {}
       THEN AddressError("StateNotFoundError", <<"countries", "states">>)
       ELSE IF cities = {}
       THEN AddressError("CityNotFoundError", <<"countries", "states", "cities">>)
       ELSE AddressId(first(cities), first(states), first(countries),
                      <<"countries", "states", "cities">>)

\* A resolver that runs the three lookups first and reports afterwards,
\* the deepest missing link first
check_all_then_report(self) ==
    LET sp == get_search_params(self.country)
        countries == {c \in Countries : c[sp.field] = sp.value}
        states == {s \in States : s.name = self.state
                     /\ \E c \in countries : s.country_id = c.id}
        cities == {c \in Cities : c.name = self.city
                     /\ \E s \in states : c.state_id = s.id}
        q == <<"countries", "states", "cities">>
    IN IF cities # {} THEN AddressId(first(cities), first(states), first(countries), q)
       ELSE IF states # {} THEN AddressError("CityNotFoundError", q)
       ELSE IF countries # {} THEN AddressError("StateNotFoundError", q)
       ELSE AddressError("CountryNotFoundError", q)

\* AddressIn.check_if_country_state_city_exists; "queries" lists the tables
\* the session has queried when the method returns or raises
check_if_country_state_city_exists(self) ==
    LET sp == get_search_params(self.country)
        countries == {c \in Countries : c[sp.field] = sp.value}
    IN IF countries = {}
       THEN AddressError("CountryNotFoundError", <<"countries">>)
       ELSE
       LET country == first(countries)
           states == {s \in States : s.name = self.state
                                     /\ s.country_id = country.id}
           q2 == <<"countries", "states">>
       IN IF states = {}
          THEN AddressError("StateNotFoundError", q2)
          ELSE
          LET state == first(states)
              cities == {c \in Cities : c.name = self.city
                                        /\ c.state_id = state.id
                                        /\ c.country_id = country.id}
              q3 == <<"countries", "states", "cities">>
          IN IF state.country_id # country.id
             THEN AddressError("StateCountryMismatchError", q2)
             ELSE IF cities = {}
             THEN AddressError("CityNotFoundError", q3)
             ELSE
             LET city == first(cities)
             IN IF city.state_id # state.id
                THEN AddressError("CityStateMismatchError", q3)
                ELSE IF city.country_id # country.id
                THEN AddressError("CityCountryMismatchError", q3)
                ELSE AddressId(city, state, country, q3)

(***************************************************************************)
(* Carrier registry and tracking-number patterns.  Every seeded pattern    *)
(* has the shape ^ literal class{min,max} $ and is kept as that record.    *)
(***************************************************************************)
Pattern(prefix, cls, min, max) ==
    [prefix |-> prefix, cls |-> cls, min |-> min, max |-> max]

CharClass(cls) ==
    CASE cls = "digit" -> Digits                                   \* \d, [0-9]
      [] cls = "alnum" -> Digits \cup Range(LowerLetters) \cup Range(UpperLetters)
      [] cls = "alnumdash" ->
            Digits \cup Range(LowerLetters) \cup Range(UpperLetters) \cup {"-"}

\* carrier_data, as create_carrier stores it
SeedCarriers ==
    { [id |-> 101, name |-> "dhl-express",
       regex_tracking_number |->
         [standard |-> Pattern(<<>>, "digit", 10, 10),
          express  |-> Pattern(<<>>, "alnumdash", 13, 20)]],
      [id |-> 102, name |-> "ups",
       regex_tracking_number |->
         [standard      |-> Pattern(<<"1","Z">>, "alnum", 16, 16),
          freight       |-> Pattern(<<>>, "digit", 9, 9),
          international |-> Pattern(<<>>, "digit", 18, 18)]],
      [id |-> 103, name |-> "fedex",
       regex_tracking_number |->
         [standard  |-> Pattern(<<>>, "digit", 12, 14),
          ground    |-> Pattern(<<>>, "digit", 15, 20),
          smartpost |-> Pattern(<<>>, "digit", 20, 20)]] }

\* The table "carriers" as the request path reads it
Carriers == reference.carriers

\* The reference data once the administrative scripts have run
SeedReference ==
    [countries |-> SeedCountries, states |-> SeedStates,
     cities |-> SeedCities, carriers |-> SeedCarriers]

CarrierById(id) == CHOOSE c \in Carriers : c.id = id

\* re.match(pattern, string) is not None
re_match(pattern, string) ==
    LET n == Len(string)
        k == Len(pattern.prefix)
    IN /\ n >= k
       /\ SubSeq(string, 1, k) = pattern.prefix
       /\ (n - k) \in pattern.min .. pattern.max
       /\ \A i \in (k + 1) .. n : string[i] \in CharClass(pattern.cls)

\* carrier.regex_tracking_number.values(): the patterns in the order of the
\* stored object's keys
values(d) ==
    LET keys == CHOOSE s \in [1 .. Cardinality(DOMAIN d) -> DOMAIN d] :
                    Range(s) = DOMAIN d
    IN [i \in DOMAIN keys |-> d[keys[i]]]

\* all(re.match(pattern, string) for pattern in patterns), from position i
RECURSIVE py_all(_, _, _)
py_all(patterns, string, i) ==
    IF i > Len(patterns) THEN TRUE
    ELSE IF ~ re_match(patterns[i], string) THEN FALSE
    ELSE py_all(patterns, string, i + 1)

\* any(re.match(pattern, string) for pattern in patterns), from position i:
\* the scan stops at the first pattern that matches
RECURSIVE py_any(_, _, _)
py_any(patterns, string, i) ==
    IF i > Len(patterns) THEN FALSE
    ELSE IF re_match(patterns[i], string) THEN TRUE
    ELSE py_any(patterns, string, i + 1)

\* What validate_carrier hands back: a Carrier row, or an exception object
CarrierOutcome(kind, raised, id, name, carrier_name, shipment_number) ==
    [kind |-> kind, raised |-> raised, id |-> id, name |-> name,
     carrier_name |-> carrier_name, shipment_number |-> shipment_number]

\* ShipmentIn.validate_carrier.  It returns (does not raise) the exception
\* object when the number matches no pattern; building CarrierNotFoundError
\* raises TypeError (its detail is a set holding a dict).
validate_carrier(self) ==
    LET rows == {c \in Carriers : c.name = self.carrier}
    IN IF rows = {}
       THEN CarrierOutcome("TypeError", TRUE, 0, "", "", <<>>)
       ELSE
       LET carrier == first(rows)
           patterns == values(carrier.regex_tracking_number)
       IN IF ~ py_any(patterns, self.shipment_number, 1)
          THEN CarrierOutcome("ShipmentNumberMismatchError", FALSE, 0, "",
                              self.carrier, self.shipment_number)
          ELSE CarrierOutcome("Carrier", FALSE, carrier.id, carrier.name,
                              "", <<>>)

(***************************************************************************)
(* The request bodies the model posts.                                     *)
(***************************************************************************)
\* A datetime: wall clock reading in hours, utc offset of its tzinfo if any
datetime(aware, utcoffset, wall) ==
    [aware |-> aware, utcoffset |-> utcoffset, wall |-> wall]

\* v.replace(tzinfo=timezone.utc)
replace_tzinfo_utc(v) == datetime(TRUE, 0, v.wall)

\* the instant an aware datetime denotes, which comparisons go by
utc_instant(v) == v.wall - v.utcoffset

NoCountry == [name |-> "", code |-> "", iso2 |-> <<>>, iso3 |-> <<>>]

\* ShipmentIn built from one object of the request body
ShipmentIn(raw) ==
    [shipment_number |-> raw.shipment_number,
     shipment_date |-> raw.shipment_date, price |-> raw.price,
     carrier |-> raw.carrier,
     address |-> AddressIn(raw.address).value, packages |-> raw.packages]

\* "1Z12345E1512345676": a standard ups number
NumberUps == <<"1","Z","1","2","3","4","5","E","1","5","1","2","3","4","5","6","7","6">>
\* a 12-digit fedex number
NumberFedex == <<"0","2","0","2","0","7","0","2","1","3","8","1">>
\* "12345": matches no pattern of any carrier
NumberBad == <<"1","2","3","4","5">>

\* the street part of an address object
Street(postal_code, address_line_1, address_line_2) ==
    [postal_code |-> postal_code, address_line_1 |-> address_line_1,
     address_line_2 |-> address_line_2, city |-> "", state |-> "",
     country |-> NoCountry]

SubmissionPool ==
    { \* ups, valid number, Paris / Texas / US
      ShipmentIn([shipment_number |-> NumberUps, carrier |-> "ups",
        shipment_date |-> datetime(TRUE, 0, 1), price |-> 45,
        address |-> [Street("75460", "1234 Main St.", "Apt. 1234") EXCEPT
                     !.city = "Paris", !.state = "Texas",
                     !.country = [NoCountry EXCEPT !.iso2 = <<"u","s">>]],
        packages |-> <<5>>]),
      \* ups, number that matches no ups pattern
      ShipmentIn([shipment_number |-> NumberBad, carrier |-> "ups",
        shipment_date |-> datetime(TRUE, 0, 2), price |-> 35,
        address |-> [Street("78701", "PO Box 1234", "") EXCEPT
                     !.city = "Austin", !.state = "Texas",
                     !.country = [NoCountry EXCEPT !.code = "840"]],
        packages |-> <<7>>]),
      \* fedex, valid number, Paris / Ontario / Canada, two packages
      ShipmentIn([shipment_number |-> NumberFedex, carrier |-> "fedex",
        shipment_date |-> datetime(TRUE, 2, 5), price |-> 12,
        address |-> [Street("N3L 2M3", "66 Grand River St.", "") EXCEPT
                     !.city = "Paris", !.state = "Ontario",
                     !.country = [NoCountry EXCEPT !.name = "Canada"]],
        packages |-> <<2, 3>>]),
      \* a carrier the registry does not hold
      ShipmentIn([shipment_number |-> NumberFedex, carrier |-> "gls",
        shipment_date |-> datetime(TRUE, 0, 2), price |-> 45,
        address |-> [Street("93650", "2600 Fresno St.", "") EXCEPT
                     !.city = "Fresno", !.state = "California",
                     !.country = [NoCountry EXCEPT !.iso3 = <<"U","S","A">>]],
        packages |-> <<4>>]),
      \* valid carrier and number, city that exists only under another state
      ShipmentIn([shipment_number |-> NumberUps, carrier |-> "ups",
        shipment_date |-> datetime(TRUE, 0, 1), price |-> 35,
        address |-> [Street("75001", "100 Queen St.", "") EXCEPT
                     !.city = "Toronto", !.state = "Texas",
                     !.country = [NoCountry EXCEPT !.iso2 = <<"U","S">>]],
        packages |-> <<6>>]),
      \* ups, valid number and address, no package listed
      ShipmentIn([shipment_number |-> NumberUps, carrier |-> "ups",
        shipment_date |-> datetime(TRUE, 0, 4), price |-> 1045,
        address |-> [Street("78701", "PO Box 77", "") EXCEPT
                     !.city = "Austin", !.state = "Texas",
                     !.country = [NoCountry EXCEPT !.iso2 = <<"U","S">>]],
        packages |-> <<>>]) }

Batches == UNION {[1 .. n -> SubmissionPool] : n \in 1 .. MaxBatch}

(***************************************************************************)
(* Persistence: create_shipment_in_db and the re-read of the new rows.     *)
(***************************************************************************)
\* limit(100) of the re-read statement
PostReadLimit == 100

\* create_packages that keeps only the first package of the shipment
create_packages_first_only(shipment, shipment_id) ==
    IF shipment.packages = <<>> THEN <<>>
    ELSE <<[weight |-> shipment.packages[1], shipment_id |-> shipment_id]>>

\* create_packages
create_packages(shipment, shipment_id) ==
    [k \in DOMAIN shipment.packages |->
        [weight |-> shipment.packages[k], shipment_id |-> shipment_id]]

\* carrier lookup of create_shipment_in_db that takes the first result
find_carrier_first(carriers, name, i) ==
    IF i > Len(carriers) THEN [kind |-> "None"]
    ELSE IF carriers[i].kind # "Carrier" THEN [kind |-> "AttributeError"]
    ELSE carriers[i]

\* next((x for x in carriers if x.name == name), None): the scan reads x.name
\* of every element up to the first match; an exception object returned by
\* validate_carrier has no attribute "name"
RECURSIVE find_carrier(_, _, _)
find_carrier(carriers, name, i) ==
    IF i > Len(carriers) THEN [kind |-> "None"]
    ELSE IF carriers[i].kind # "Carrier" THEN [kind |-> "AttributeError"]
    ELSE IF carriers[i].name = name THEN carriers[i]
    ELSE find_carrier(carriers, name, i + 1)

\* One flushed row: its table, its id, the row it refers to and the item of
\* the batch it was built from
Flush(table, id, ref, item) ==
    [table |-> table, id |-> id, ref |-> ref, item |-> item]

\* The flushes of one item with the Shipment flushed ahead of its Address
item_flushes_shipment_first(i, address, shipment_instance, package_instances, p0) ==
    <<Flush("shipments", shipment_instance.id, address.id, i),
      Flush("addresses", address.id, 0, i)>>
    \o [k \in DOMAIN package_instances |->
          Flush("packages", p0 + k, package_instances[k].shipment_id, i)]

\* The flushes of one item of the loop: session.add(address), flush;
\* session.add(shipment_instance), flush; session.add_all(package_instances),
\* flush.  p0 is the number of Package rows the session held before.
item_flushes(i, address, shipment_instance, package_instances, p0) ==
    <<Flush("addresses", address.id, 0, i),
      Flush("shipments", shipment_instance.id, address.id, i)>>
    \o [k \in DOMAIN package_instances |->
          Flush("packages", p0 + k, package_instances[k].shipment_id, i)]

\* The loop of create_shipment_in_db from item i on; tx is the session's
\* view of the three tables, the ids staged so far, the flushes made and the
\* exception raised.  The Address of an item is flushed before its carrier
\* is looked up.
RECURSIVE stage_items(_, _, _, _)
stage_items(items, carriers, i, tx) ==
    IF i > Len(items) THEN tx
    ELSE
    LET item == items[i]
        address == [id |-> Len(tx.addresses) + 1,
                    postal_code |-> item.shipment.address.postal_code,
                    address_line_1 |-> item.shipment.address.address_line_1,
                    address_line_2 |-> item.shipment.address.address_line_2,
                    city_id |-> item.city_id,
                    state_id |-> item.state_id, country_id |-> item.country_id]
        carrier == find_carrier(carriers, item.shipment.carrier, 1)
        raised(error) ==
            [tx EXCEPT !.addresses = Append(tx.addresses, address),
                       !.flushed = Append(tx.flushed,
                                          Flush("addresses", address.id, 0, i)),
                       !.error = error]
    IN IF carrier.kind = "AttributeError" THEN raised("AttributeError")
       ELSE IF carrier.kind = "None" THEN raised("ValueError")
       ELSE
       LET shipment_instance ==
               [id |-> Len(tx.shipments) + 1,
                shipment_number |-> item.shipment.shipment_number,
                shipment_date |-> utc_instant(item.shipment.shipment_date),
                price |-> item.shipment.price,
                carrier_id |-> carrier.id, address_id |-> address.id]
           package_instances == create_packages(item.shipment, shipment_instance.id)
       IN stage_items(items, carriers, i + 1,
             [addresses |-> Append(tx.addresses, address),
              shipments |-> Append(tx.shipments, shipment_instance),
              packages |-> tx.packages \o package_instances,
              shipments_id |-> Append(tx.shipments_id, shipment_instance.id),
              flushed |-> tx.flushed
                            \o item_flushes(i, address, shipment_instance,
                                            package_instances, Len(tx.packages)),
              error |-> ""])

\* The session of create_shipment_in_db as it starts on the store db
Session(db) ==
    [addresses |-> db.addresses, shipments |-> db.shipments,
     packages |-> db.packages, shipments_id |-> <<>>, flushed |-> <<>>,
     error |-> ""]

\* create_shipment_in_db whose flushes stay in the store when an item fails
create_shipment_in_db_flushed_stays(items, carriers, db) ==
    stage_items(items, carriers, 1, Session(db))

\* create_shipment_in_db: the whole loop inside one session.begin(); an
\* exception leaves the block by a rollback, the end of the loop by a commit
create_shipment_in_db(items, carriers, db) ==
    LET tx == stage_items(items, carriers, 1, Session(db))
    IN IF tx.error # ""
       THEN [Session(db) EXCEPT !.error = tx.error, !.flushed = tx.flushed]
       ELSE tx

\* No session of create_shipment_in_db is open
NoSession ==
    [open |-> FALSE,
     tx |-> Session([addresses |-> <<>>, shipments |-> <<>>,
                     packages |-> <<>>])]

\* The committed tables
Store == [addresses |-> addresses, shipments |-> shipments,
          packages |-> packages]

\* A statement that reads the rows another open session has flushed
read_uncommitted(db, other) ==
    IF other.open
    THEN [addresses |-> other.tx.addresses, shipments |-> other.tx.shipments,
          packages |-> other.tx.packages]
    ELSE db

\* What a statement of one session reads while another session is open:
\* the engine runs at the isolation level of the database, READ COMMITTED
read_committed(db, other) == db

\* ShipmentOut whose address renders the country as its iso2
ShipmentOut_country_iso2(row, addressTable, packageTable) ==
    LET address == addressTable[row.address_id]
    IN [id |-> row.id, shipment_number |-> row.shipment_number,
        shipment_date |-> row.shipment_date, price |-> row.price,
        carrier |-> CarrierById(row.carrier_id).name,
        address |-> [postal_code |-> address.postal_code,
                     address_line_1 |-> address.address_line_1,
                     address_line_2 |-> address.address_line_2,
                     city |-> CityById(address.city_id).name,
                     state |-> StateById(address.state_id).name,
                     country |-> CountryById(address.country_id).iso2],
        packages |-> SelectSeq(packageTable, LAMBDA p : p.shipment_id = row.id)]

\* ShipmentOut / AddressOut of a row, with its related rows loaded
ShipmentOut(row, addressTable, packageTable) ==
    LET address == addressTable[row.address_id]
    IN [id |-> row.id, shipment_number |-> row.shipment_number,
        shipment_date |-> row.shipment_date, price |-> row.price,
        carrier |-> CarrierById(row.carrier_id).name,
        address |-> [postal_code |-> address.postal_code,
                     address_line_1 |-> address.address_line_1,
                     address_line_2 |-> address.address_line_2,
                     city |-> CityById(address.city_id).name,
                     state |-> StateById(address.state_id).name,
                     country |-> CountryById(address.country_id).iso3],
        packages |-> SelectSeq(packageTable, LAMBDA p : p.shipment_id = row.id)]

\* shipments_post_request(select(Shipment).where(Shipment.id.in_(ids)).limit(100)):
\* the rows newest first (rows are created in insertion order)
shipments_post_request(ids, shipmentTable, addressTable, packageTable) ==
    LET hit == SelectSeq(shipmentTable, LAMBDA s : s.id \in Range(ids))
        desc == [k \in 1 .. Len(hit) |-> hit[Len(hit) + 1 - k]]
        cut == SubSeq(desc, 1, IF Len(desc) < PostReadLimit THEN Len(desc)
                                 ELSE PostReadLimit)
    IN [k \in DOMAIN cut |-> ShipmentOut(cut[k], addressTable, packageTable)]

\* The response of create_shipment once create_shipment_in_db has returned
PostResponse(result_lst, records_recieved_len) ==
    IF Len(result_lst) # records_recieved_len
    THEN [status_code |-> 200, created |-> Len(result_lst),
          message |-> "Some records were not created", records |-> <<>>,
          error |-> ""]
    ELSE [status_code |-> 201, created |-> Len(result_lst),
          message |-> "All records created", records |-> result_lst,
          error |-> ""]

\* The response when the handler raises: an HTTPException keeps its status,
\* any other exception ends as 500
ErrorResponse(status_code, error) ==
    [status_code |-> status_code, created |-> 0, message |-> "",
     records |-> <<>>, error |-> error]

NoResponse == ErrorResponse(0, "")

(***************************************************************************)
(* POST /shipment/ : create_shipment.                                      *)
(***************************************************************************)
\* The request arrives with its validated body, one of bodies
create_shipment_receives(bodies) ==
    /\ pc \in {"idle", "done"}
    /\ \E b \in bodies :
         /\ Len(shipments) + Len(b) <= MaxStored
         /\ body' = b
    /\ pre' = [addresses |-> addresses, shipments |-> shipments,
               packages |-> packages]
    /\ pc' = "validate_carrier"
    /\ cariers' = <<>>
    /\ result' = <<>>
    /\ response' = NoResponse
    /\ flushed' = <<>>
    /\ UNCHANGED <<reference, storeVars, addrVars, valVars, getVars, session>>

PostReceive == create_shipment_receives(Batches)

\* cariers = await asyncio.gather(*(shipment.validate_carrier() ...))
PostValidateCarriers ==
    /\ pc = "validate_carrier"
    /\ LET got == [i \in DOMAIN body |-> validate_carrier(body[i])]
       IN IF \E i \in DOMAIN got : got[i].raised
          THEN /\ response' = ErrorResponse(500, "TypeError")
               /\ pc' = "done"
               /\ cariers' = <<>>
          ELSE /\ cariers' = got
               /\ pc' = "check_address"
               /\ response' = response
    /\ UNCHANGED <<reference, storeVars, addrVars, valVars, getVars, body, result, pre,
                   flushed, session>>

\* The AddressId check_if_country_state_city_exists returns for a submission
AddressIdOf(shipment, got) ==
    [shipment |-> shipment, city_id |-> got.city_id,
     state_id |-> got.state_id, country_id |-> got.country_id]

\* A gather that drops the submissions whose resolution raised and hands
\* back the others
gather_addresses_keep_resolved(shipments_in) ==
    LET ok == SelectSeq(shipments_in, LAMBDA x :
                  check_if_country_state_city_exists(x.address).kind = "AddressId")
    IN [raised |-> {},
        result |-> [i \in DOMAIN ok |->
                      AddressIdOf(ok[i],
                          check_if_country_state_city_exists(ok[i].address))]]

\* asyncio.gather(*(shipment.address.check_if_country_state_city_exists(
\* shipment) ...)): the exceptions the tasks raise, and the list of results
\* when none raises
gather_addresses(shipments_in) ==
    LET got == [i \in DOMAIN shipments_in |->
                  check_if_country_state_city_exists(shipments_in[i].address)]
        failed == {i \in DOMAIN got : got[i].kind # "AddressId"}
    IN [raised |-> {got[i] : i \in failed},
        result |-> IF failed # {} THEN <<>>
                   ELSE [i \in DOMAIN shipments_in |->
                           AddressIdOf(shipments_in[i], got[i])]]

\* An address resolution that creates the City it does not find under the
\* named State and Country
PostResolveAddresses_creates_city ==
    /\ pc = "check_address"
    /\ LET gathered == gather_addresses(body)
           missing == {i \in DOMAIN body :
                         check_if_country_state_city_exists(body[i].address).kind
                            # "AddressId"}
       IN IF gathered.raised # {}
          THEN /\ \E e \in gathered.raised :
                    response' = ErrorResponse(e.status_code, e.kind)
               /\ pc' = "done"
               /\ result' = <<>>
               /\ reference' =
                     [reference EXCEPT !.cities =
                         @ \cup {[id |-> 0, name |-> body[i].address.city,
                                  state_id |-> 0, country_id |-> 0] :
                                    i \in missing}]
          ELSE /\ result' = gathered.result
               /\ pc' = "create_in_db"
               /\ response' = response
               /\ reference' = reference
    /\ UNCHANGED <<storeVars, addrVars, valVars, getVars, body, cariers, pre,
                   flushed, session>>

\* result = await asyncio.gather(*(...check_if_country_state_city_exists ...)):
\* the first task to raise ends the request with its exception
PostResolveAddresses ==
    /\ pc = "check_address"
    /\ LET gathered == gather_addresses(body)
       IN IF gathered.raised # {}
          THEN /\ \E e \in gathered.raised :
                    response' = ErrorResponse(e.status_code, e.kind)
               /\ pc' = "done"
               /\ result' = <<>>
          ELSE /\ result' = gathered.result
               /\ pc' = "create_in_db"
               /\ response' = response
    /\ UNCHANGED <<reference, storeVars, addrVars, valVars, getVars, body, cariers, pre,
                   flushed, session>>

\* create_shipment_in_db in its one transaction, the re-read, the response
PostCreateInDb ==
    /\ pc = "create_in_db"
    /\ LET tx == create_shipment_in_db(result, cariers,
                   [addresses |-> addresses, shipments |-> shipments,
                    packages |-> packages])
       IN /\ addresses' = tx.addresses
          /\ shipments' = tx.shipments
          /\ packages' = tx.packages
          /\ flushed' = tx.flushed
          /\ response' =
                IF tx.error # "" THEN ErrorResponse(500, tx.error)
                ELSE PostResponse(
                       shipments_post_request(tx.shipments_id, tx.shipments,
                                              tx.addresses, tx.packages),
                       Len(tx.shipments_id))
    /\ pc' = "done"
    /\ UNCHANGED <<reference, addrVars, valVars, getVars, body, cariers, result, pre,
                   session>>

\* create_shipment_in_db up to the end of its loop: the session has flushed
\* its rows and has not committed them
PostStage ==
    /\ pc = "create_in_db"
    /\ LET tx == stage_items(result, cariers, 1, Session(Store))
       IN /\ session' = [open |-> TRUE, tx |-> tx]
          /\ flushed' = tx.flushed
          /\ pc' = IF tx.error # "" THEN "rollback" ELSE "commit"
    /\ UNCHANGED <<reference, storeVars, addrVars, valVars, getVars, body, cariers,
                   result, response, pre>>

\* await session.commit(), the re-read of the created rows, the response
PostCommit ==
    /\ pc = "commit"
    /\ addresses' = session.tx.addresses
    /\ shipments' = session.tx.shipments
    /\ packages' = session.tx.packages
    /\ response' = PostResponse(
                      shipments_post_request(session.tx.shipments_id,
                          session.tx.shipments, session.tx.addresses,
                          session.tx.packages),
                      Len(session.tx.shipments_id))
    /\ session' = NoSession
    /\ pc' = "done"
    /\ UNCHANGED <<reference, addrVars, valVars, getVars, body, cariers, result, pre,
                   flushed>>

\* The exception leaves session.begin(): the flushed rows are rolled back
PostRollback ==
    /\ pc = "rollback"
    /\ response' = ErrorResponse(500, session.tx.error)
    /\ session' = NoSession
    /\ pc' = "done"
    /\ UNCHANGED <<reference, storeVars, addrVars, valVars, getVars, body, cariers,
                   result, pre, flushed>>

(***************************************************************************)
(* GET /shipment/ : retrive_shipments, retrive_shipments_from_db and       *)
(* shipments_get_request.  An optional number or datetime that is not      *)
(* supplied is None; an optional list that is not supplied is the empty    *)
(* set.  Datetimes of the query and of the rows are utc instants.          *)
(***************************************************************************)
\* Python's None for an optional int or datetime query parameter
None == -1

\* bool(v) of an optional int: None and 0 are falsy
truthy_int(v) == v # None /\ v # 0

\* bool(v) of an optional datetime: only None is falsy
truthy_datetime(v) == v # None

\* the price check of the handler with >= in place of >
price_range_rejected_equal(min_price, max_price) ==
    min_price # None /\ max_price # None /\ min_price >= max_price

\* min_price is not None and max_price is not None and min_price > max_price
price_range_rejected(min_price, max_price) ==
    min_price # None /\ max_price # None /\ min_price > max_price

\* The filters of total_stmt without the one on end_datetime
total_where_no_end_datetime(row, kwargs) ==
    /\ kwargs.carriers # {} =>
          CarrierById(row.carrier_id).name \in kwargs.carriers
    /\ truthy_datetime(kwargs.start_datetime) =>
          row.shipment_date >= kwargs.start_datetime
    /\ truthy_int(kwargs.min_price) => row.price >= kwargs.min_price
    /\ truthy_int(kwargs.max_price) => row.price <= kwargs.max_price

\* The filters retrive_shipments_from_db adds to total_stmt
total_where(row, kwargs) ==
    /\ kwargs.carriers # {} =>
          CarrierById(row.carrier_id).name \in kwargs.carriers
    /\ truthy_datetime(kwargs.start_datetime) =>
          row.shipment_date >= kwargs.start_datetime
    /\ truthy_datetime(kwargs.end_datetime) =>
          row.shipment_date <= kwargs.end_datetime
    /\ truthy_int(kwargs.min_price) => row.price >= kwargs.min_price
    /\ truthy_int(kwargs.max_price) => row.price <= kwargs.max_price

\* The filters retrive_shipments_from_db adds to stmt
where(row, kwargs) ==
    /\ kwargs.carriers # {} =>
          CarrierById(row.carrier_id).name \in kwargs.carriers
    /\ truthy_datetime(kwargs.start_datetime) =>
          row.shipment_date >= kwargs.start_datetime
    /\ truthy_datetime(kwargs.end_datetime) =>
          row.shipment_date <= kwargs.end_datetime
    /\ truthy_int(kwargs.min_price) => row.price >= kwargs.min_price
    /\ truthy_int(kwargs.max_price) => row.price <= kwargs.max_price

\* session.execute(total_stmt).scalar()
total_stmt(shipmentTable, kwargs) ==
    Len(SelectSeq(shipmentTable, LAMBDA row : total_where(row, kwargs)))

\* the rows of a table newest first (rows are created in insertion order)
order_by_created_desc(rows) ==
    [k \in 1 .. Len(rows) |-> rows[Len(rows) + 1 - k]]

\* session.execute(stmt): filtered, ordered by created descending, then
\* offset (page - 1) * limit and limit
stmt(shipmentTable, kwargs) ==
    LET hit == SelectSeq(shipmentTable, LAMBDA row : where(row, kwargs))
        desc == order_by_created_desc(hit)
        offset == (kwargs.page - 1) * kwargs.limit
        last == IF offset + kwargs.limit < Len(desc) THEN offset + kwargs.limit
                ELSE Len(desc)
    IN SubSeq(desc, offset + 1, last)

\* shipments_get_request that runs the data statement whatever the count
after_count_always_data(count) == "data"

\* shipments_get_request after the count: if total == 0: return [], 0
after_count(count) == IF count = 0 THEN "respond" ELSE "data"

\* What the GET handler answers: ShipmentListOut, or an HTTPException
ShipmentListOut(page, next_page, last_page, limit, count, items, records) ==
    [status_code |-> 200, detail |-> "", page |-> page,
     next_page |-> next_page, last_page |-> last_page, limit |-> limit,
     total |-> count, items |-> items, records |-> records]

HTTPException(status_code, detail) ==
    [status_code |-> status_code, detail |-> detail, page |-> 0,
     next_page |-> None, last_page |-> 0, limit |-> 0, total |-> 0,
     items |-> 0, records |-> <<>>]

NoGetResponse == HTTPException(0, "")

\* The query strings the model sends
Queries ==
    [carriers : {{}, {"fedex"}, {"ups"}},
     start_datetime : {None, 2},
     end_datetime : {None, 3},
     min_price : {None, 0, 40},
     max_price : {None, 0, 40},
     page : 1 .. MaxPage,
     limit : {1, 2}]

NoQuery ==
    [carriers |-> {}, start_datetime |-> None, end_datetime |-> None,
     min_price |-> None, max_price |-> None, page |-> 1, limit |-> 1]

\* The request arrives with one of queries; a price range upside down ends
\* it at once
retrive_shipments_receives(queries_in) ==
    /\ gpc = "idle"
    /\ \E q \in queries_in :
         /\ query' = q
         /\ IF price_range_rejected(q.min_price, q.max_price)
            THEN /\ gresponse' = HTTPException(400, "The minimum price cannot be greater than the maximum price.")
                 /\ gpc' = "done"
            ELSE /\ gresponse' = gresponse
                 /\ gpc' = "count"
    /\ UNCHANGED <<reference, storeVars, postVars, addrVars, valVars, total, gshipments,
                   statements>>

GetReceive == retrive_shipments_receives(Queries)

\* shipments_get_request: the count statement; a count of 0 returns [], 0
GetCount ==
    /\ gpc = "count"
    /\ total' = total_stmt(read_committed(Store, session).shipments, query)
    /\ statements' = Append(statements, "total_stmt")
    /\ gpc' = after_count(total')
    /\ UNCHANGED <<reference, storeVars, postVars, addrVars, valVars, query, gshipments,
                   gresponse>>

\* shipments_get_request: the data statement with its eager loads
GetData ==
    /\ gpc = "data"
    /\ LET db == read_committed(Store, session)
           rows == stmt(db.shipments, query)
       IN gshipments' = [k \in DOMAIN rows |->
                           ShipmentOut(rows[k], db.addresses, db.packages)]
    /\ statements' = Append(statements, "stmt")
    /\ gpc' = "respond"
    /\ UNCHANGED <<reference, storeVars, postVars, addrVars, valVars, query, total,
                   gresponse>>

\* retrive_shipments once retrive_shipments_from_db has returned
GetRespond ==
    /\ gpc = "respond"
    /\ gresponse' =
         IF total = 0 THEN HTTPException(404, "No shipments found.")
         ELSE IF Len(gshipments) = 0
         THEN IF query.page > 1
              THEN HTTPException(404, "No more shipments found.")
              ELSE HTTPException(404, "No shipments found.")
         ELSE ShipmentListOut(
                query.page,
                IF total > query.page * query.limit THEN query.page + 1
                ELSE None,
                (total \div query.limit) + 1,
                query.limit, total, Len(gshipments), gshipments)
    /\ gpc' = "done"
    /\ UNCHANGED <<reference, storeVars, postVars, addrVars, valVars, query, total,
                   gshipments, statements>>

(***************************************************************************)
(* One address object through validation and resolution.                   *)
(***************************************************************************)
RawCountries ==
    [name : {"", "United States", "Canada", "Mordor"},
     code : {"", "840", "124"},
     iso2 : {<<>>, <<"U","S">>, <<"u","s">>, <<"C","A">>, <<"c","a">>},
     iso3 : {<<>>, <<"U","S","A">>, <<"u","s","a">>, <<"C","A","N">>,
             <<"c","a","n">>, <<"m","e","x">>}]

RawAddresses ==
    [postal_code : {"75460"}, address_line_1 : {"1234 Main St."},
     address_line_2 : {""},
     city : {"Paris", "Austin", "Toronto", "Atlantis"},
     state : {"Texas", "Ontario", "Utopia"},
     country : RawCountries]

NoAddressOutcome == AddressError("", <<>>)

\* pydantic builds the AddressIn; a validator that raises ends the request
ParseAddress ==
    /\ aphase = "received"
    /\ LET parsed == AddressIn(ain)
       IN /\ aparsed' = parsed
          /\ aphase' = IF parsed.ok THEN "parsed" ELSE "rejected"
    /\ UNCHANGED <<reference, storeVars, postVars, valVars, getVars, ain, aout>>

\* the handler awaits check_if_country_state_city_exists
ResolveAddress ==
    /\ aphase = "parsed"
    /\ aout' = check_if_country_state_city_exists(aparsed.value)
    /\ aphase' = "resolved"
    /\ UNCHANGED <<reference, storeVars, postVars, valVars, getVars, ain, aparsed>>

(***************************************************************************)
(* One submission through carrier validation.                              *)
(***************************************************************************)
Rep(c, n) == [i \in 1 .. n |-> c]

\* Tracking numbers around the seeded patterns: digit runs of every length,
\* ups "1Z" numbers, numbers with a letter or a dash, numbers that only
\* contain a match after their first character or before their last one
TrackingNumbers ==
    {Rep("7", n) : n \in 3 .. MaxDigits}
    \cup {<<"1", "Z">> \o Rep("A", n) : n \in 15 .. 17}
    \cup {Rep("7", n) \o <<"x">> : n \in {9, 10, 12}}
    \cup {<<"x">> \o Rep("7", n) : n \in {9, 10, 12}}
    \cup {Rep("b", n) \o <<"-">> \o Rep("4", 6) : n \in 5 .. 8}
    \cup {Rep("7", 12) \o <<"_">>, NumberUps, NumberFedex, NumberBad}

CarrierNames == {c.name : c \in Carriers} \cup {"gls"}

CarrierInputs ==
    LET s == CHOOSE x \in SubmissionPool : x.carrier = "fedex"
    IN {[s EXCEPT !.carrier = c, !.shipment_number = n] :
           c \in CarrierNames, n \in TrackingNumbers}

NoCarrierOutcome == CarrierOutcome("", FALSE, 0, "", "", <<>>)

\* the handler awaits shipment.validate_carrier()
ValidateCarrier ==
    /\ cout = NoCarrierOutcome
    /\ cout' = validate_carrier(cin)
    /\ UNCHANGED <<reference, storeVars, postVars, addrVars, getVars, cin, din, dnow, dout>>

(***************************************************************************)
(* One shipment_date through its field validator.  A datetime is its wall  *)
(* clock reading in hours, with the utc offset of its tzinfo when it has   *)
(* one; the current time is an instant on the utc clock.                   *)
(***************************************************************************)
\* ShipmentIn.check_if_not_in_future
check_if_not_in_future(v, now) ==
    IF ~ v.aware /\ utc_instant(replace_tzinfo_utc(v)) > now
    THEN [kind |-> "ShipmentDateError", status_code |-> 400, value |-> v]
    ELSE [kind |-> "datetime", status_code |-> 0, value |-> v]

UtcOffsets == {-5, 0, 2}

Datetimes ==
    {datetime(FALSE, 0, w) : w \in 0 .. MaxHour}
    \cup {datetime(TRUE, o, w) : o \in UtcOffsets, w \in 0 .. MaxHour}

NoDateOutcome == [kind |-> "", status_code |-> 0, value |-> datetime(FALSE, 0, 0)]

\* pydantic runs the field validator on the parsed shipment_date
ValidateDate ==
    /\ dout = NoDateOutcome
    /\ dout' = check_if_not_in_future(din, dnow)
    /\ UNCHANGED <<reference, storeVars, postVars, addrVars, getVars, cin, cout, din, dnow>>

(***************************************************************************)
(* Specifications.                                                         *)
(***************************************************************************)
InitStore ==
    /\ reference = SeedReference
    /\ addresses = <<>>
    /\ shipments = <<>>
    /\ packages = <<>>
    /\ pc = "idle"
    /\ body = <<>>
    /\ cariers = <<>>
    /\ result = <<>>
    /\ response = NoResponse
    /\ pre = [addresses |-> <<>>, shipments |-> <<>>, packages |-> <<>>]
    /\ flushed = <<>>
    /\ session = NoSession

InitAddressIdle ==
    /\ ain = [Street("75460", "1234 Main St.", "") EXCEPT
                 !.city = "Paris", !.state = "Texas",
                 !.country = [NoCountry EXCEPT !.name = "United States"]]
    /\ aphase = "idle"
    /\ aparsed = AddressIn(ain)
    /\ aout = NoAddressOutcome

InitValidatorsIdle ==
    /\ cin = CHOOSE x \in SubmissionPool : x.carrier = "fedex"
    /\ cout = validate_carrier(cin)
    /\ din = datetime(FALSE, 0, 0)
    /\ dnow = 0
    /\ dout = check_if_not_in_future(din, dnow)

InitGetIdle ==
    /\ gpc = "idle"
    /\ query = NoQuery
    /\ total = 0
    /\ gshipments = <<>>
    /\ gresponse = NoGetResponse
    /\ statements = <<>>

Init ==
    /\ InitStore
    /\ InitAddressIdle
    /\ InitValidatorsIdle
    /\ InitGetIdle

Next ==
    \/ PostReceive
    \/ PostValidateCarriers
    \/ PostResolveAddresses
    \/ PostCreateInDb

\* The request path of POST /shipment/ over the seeded store
Spec == Init /\ [][Next]_vars

InitAddress ==
    /\ InitStore
    /\ InitValidatorsIdle
    /\ InitGetIdle
    /\ ain \in RawAddresses
    /\ aphase = "received"
    /\ aparsed = AddressIn(ain)
    /\ aout = NoAddressOutcome

NextAddress ==
    \/ ParseAddress
    \/ ResolveAddress

\* Validation and resolution of every address object of RawAddresses
SpecAddress == InitAddress /\ [][NextAddress]_vars

InitCarrier ==
    /\ InitStore
    /\ InitAddressIdle
    /\ InitGetIdle
    /\ cin \in CarrierInputs
    /\ cout = NoCarrierOutcome
    /\ din = datetime(FALSE, 0, 0)
    /\ dnow = 0
    /\ dout = check_if_not_in_future(din, dnow)

NextCarrier == ValidateCarrier

\* validate_carrier on every carrier name and tracking number of CarrierInputs
SpecCarrier == InitCarrier /\ [][NextCarrier]_vars

InitDate ==
    /\ InitStore
    /\ InitAddressIdle
    /\ InitGetIdle
    /\ cin = CHOOSE x \in SubmissionPool : x.carrier = "fedex"
    /\ cout = validate_carrier(cin)
    /\ din \in Datetimes
    /\ dnow \in 0 .. MaxHour
    /\ dout = NoDateOutcome

NextDate == ValidateDate

\* check_if_not_in_future on every date of Datetimes at every current time
SpecDate == InitDate /\ [][NextDate]_vars

\* The submissions a POST on the empty store persists without an error
PersistableBatches ==
    {b \in Batches : \A i \in DOMAIN b :
        /\ validate_carrier(b[i]).kind = "Carrier"
        /\ check_if_country_state_city_exists(b[i].address).kind = "AddressId"}

\* The store is empty, or holds what one finished POST of a batch left
InitGet ==
    /\ reference = SeedReference
    /\ InitAddressIdle
    /\ InitValidatorsIdle
    /\ InitGetIdle
    /\ \/ InitStore
       \/ \E b \in PersistableBatches :
            LET tx == create_shipment_in_db(
                        gather_addresses(b).result,
                        [i \in DOMAIN b |-> validate_carrier(b[i])],
                        [addresses |-> <<>>, shipments |-> <<>>,
                         packages |-> <<>>])
            IN /\ addresses = tx.addresses
               /\ shipments = tx.shipments
               /\ packages = tx.packages
               /\ pc = "done"
               /\ body = b
               /\ cariers = [i \in DOMAIN b |-> validate_carrier(b[i])]
               /\ result = gather_addresses(b).result
               /\ response = PostResponse(
                     shipments_post_request(tx.shipments_id, tx.shipments,
                                            tx.addresses, tx.packages),
                     Len(tx.shipments_id))
               /\ pre = [addresses |-> <<>>, shipments |-> <<>>,
                         packages |-> <<>>]
               /\ flushed = tx.flushed
               /\ session = NoSession

NextGet ==
    \/ GetReceive
    \/ GetCount
    \/ GetData
    \/ GetRespond

\* GET /shipment/ over the empty store and over the store one POST left
SpecGet == InitGet /\ [][NextGet]_vars

\* The bodies of the POST requests that run beside a GET
ConcurrentBatches ==
    {b \in Batches :
        /\ Len(b) <= 2
        /\ \A i \in DOMAIN b :
              /\ b[i].carrier \in {"ups", "fedex"}
              /\ b[i].packages # <<>>}

\* The queries of the GET that runs beside the POST requests
ConcurrentQueries ==
    {q \in Queries :
        /\ q.start_datetime = None /\ q.end_datetime = None
        /\ q.min_price = None /\ q.max_price = None}

PostReceiveConcurrent == create_shipment_receives(ConcurrentBatches)

GetReceiveConcurrent == retrive_shipments_receives(ConcurrentQueries)

NextConcurrent ==
    \/ PostReceiveConcurrent
    \/ PostValidateCarriers
    \/ PostResolveAddresses
    \/ PostStage
    \/ PostCommit
    \/ PostRollback
    \/ GetReceiveConcurrent
    \/ GetCount
    \/ GetData
    \/ GetRespond

\* One GET /shipment/ beside POST /shipment/ requests, each statement and
\* each commit a step of its own
SpecConcurrent == Init /\ [][NextConcurrent]_vars

(***************************************************************************)
(* Properties of POST /shipment/ (specification Spec).                     *)
(***************************************************************************)
CarrierOk(s) == validate_carrier(s).kind = "Carrier"
AddressOk(s) == check_if_country_state_city_exists(s.address).kind = "AddressId"
FullyValid(s) == CarrierOk(s) /\ AddressOk(s)

RECURSIVE PackagesListed(_, _)
PackagesListed(b, idx) ==
    IF idx = {} THEN 0
    ELSE LET i == CHOOSE j \in idx : TRUE
         IN Len(b[i].packages) + PackagesListed(b, idx \ {i})

PackagesOf(shipment_id) ==
    {k \in DOMAIN packages : packages[k].shipment_id = shipment_id}

\* C1: every persisted Shipment's shipment_number matches at least one regex
\* pattern of the Carrier its carrier_id refers to.
C1_ShipmentNumberMatchesCarrier ==
    \A k \in DOMAIN shipments :
        \E pattern \in Range(CarrierById(shipments[k].carrier_id).regex_tracking_number) :
            re_match(pattern, shipments[k].shipment_number)

\* C2: when a batch holds a submission that fails address resolution and
\* another that is fully valid, the request ends with the partial-success
\* response and the fully valid submissions are persisted.  Stated for the
\* batches whose submissions all pass carrier validation, so that the only
\* failure in the batch is the address.
C2_AddressFailureIsolated ==
    ( /\ pc = "done"
      /\ \A i \in DOMAIN body : CarrierOk(body[i])
      /\ \E i \in DOMAIN body : ~ AddressOk(body[i])
      /\ \E j \in DOMAIN body : FullyValid(body[j]) )
    => /\ response.status_code = 200
       /\ response.message = "Some records were not created"
       /\ Len(shipments) >= Len(pre.shipments)
              + Cardinality({j \in DOMAIN body : FullyValid(body[j])})

\* C3: when k of the n submissions (0 < k < n) fail carrier validation and the
\* others are fully valid, the response is 200 with created = n - k and the
\* partial-success message, and only the n - k valid submissions are persisted.
\* Stated for the failures by a tracking number that matches no pattern of a
\* carrier the registry holds.
C3_CarrierFailuresExcluded ==
    LET bad == {i \in DOMAIN body :
                  validate_carrier(body[i]).kind = "ShipmentNumberMismatchError"}
        good == DOMAIN body \ bad
    IN ( /\ pc = "done"
         /\ bad # {}
         /\ good # {}
         /\ \A i \in good : FullyValid(body[i]) )
       => /\ response.status_code = 200
          /\ response.created = Cardinality(good)
          /\ response.message = "Some records were not created"
          /\ Len(shipments) = Len(pre.shipments) + Cardinality(good)
          /\ Len(addresses) = Len(pre.addresses) + Cardinality(good)
          /\ Len(packages) = Len(pre.packages) + PackagesListed(body, good)

\* C4: a batch whose n submissions all pass carrier validation and address
\* resolution ends with 201, created = n, the full-success message and the n
\* new Shipments as records; the store gains n Addresses, n Shipments and, for
\* each submission, as many Packages as it listed.
C4_AllValidBatchCreated ==
    ( pc = "done" /\ \A i \in DOMAIN body : FullyValid(body[i]) )
    => LET n == Len(body)
           a0 == Len(pre.addresses)
           s0 == Len(pre.shipments)
           p0 == Len(pre.packages)
       IN /\ response.status_code = 201
          /\ response.created = n
          /\ response.message = "All records created"
          /\ Len(response.records) = n
          /\ {response.records[k].id : k \in DOMAIN response.records}
                = {shipments[s0 + i].id : i \in 1 .. n}
          /\ Len(addresses) = a0 + n
          /\ Len(shipments) = s0 + n
          /\ Len(packages) = p0 + PackagesListed(body, DOMAIN body)
          /\ SubSeq(addresses, 1, a0) = pre.addresses
          /\ SubSeq(shipments, 1, s0) = pre.shipments
          /\ SubSeq(packages, 1, p0) = pre.packages
          /\ \A i \in 1 .. n :
                /\ shipments[s0 + i].shipment_number = body[i].shipment_number
                /\ Cardinality(PackagesOf(shipments[s0 + i].id))
                      = Len(body[i].packages)

\* C4 witness: a finished request of two fully valid submissions of two
\* carriers, one of them listing two packages
C4_Witness ==
    /\ pc = "done"
    /\ Len(body) = 2
    /\ \A i \in DOMAIN body : FullyValid(body[i])
    /\ body[1].carrier # body[2].carrier
    /\ \E i \in DOMAIN body : Len(body[i].packages) = 2
    /\ response.status_code = 201

\* C5: every persisted Address satisfies containment: its city's state_id and
\* country_id are the Address's, and its state's country_id is the Address's.
C5_AddressContainment ==
    \A k \in DOMAIN addresses :
        LET a == addresses[k]
        IN /\ CityById(a.city_id).state_id = a.state_id
           /\ CityById(a.city_id).country_id = a.country_id
           /\ StateById(a.state_id).country_id = a.country_id

\* C5 witness: two persisted Addresses whose cities share a name and lie in
\* different countries
C5_Witness ==
    \E j, k \in DOMAIN addresses :
        /\ CityById(addresses[j].city_id).name = CityById(addresses[k].city_id).name
        /\ addresses[j].country_id # addresses[k].country_id

(***************************************************************************)
(* Properties of address validation and resolution (SpecAddress).          *)
(***************************************************************************)
NumSupplied(raw) ==
    (IF raw.name # "" THEN 1 ELSE 0) + (IF raw.code # "" THEN 1 ELSE 0)
    + (IF raw.iso2 # <<>> THEN 1 ELSE 0) + (IF raw.iso3 # <<>> THEN 1 ELSE 0)

Validated == aphase \in {"rejected", "parsed", "resolved"}

\* Rows of the reference store that the parsed address names
CountriesNamed ==
    LET sp == get_search_params(aparsed.value.country)
    IN {c \in Countries : c[sp.field] = sp.value}
StatesNamed == {s \in States : s.name = aparsed.value.state}
StatesNamedInCountry ==
    {s \in StatesNamed : \E c \in CountriesNamed : s.country_id = c.id}
CitiesNamed == {c \in Cities : c.name = aparsed.value.city}
CitiesNamedInState ==
    {c \in CitiesNamed : \E s \in StatesNamedInCountry : c.state_id = s.id}
CitiesNamedInStateAndCountry ==
    {c \in CitiesNamedInState : \E k \in CountriesNamed : c.country_id = k.id}

\* C6 (as stated): a country selector is accepted only when exactly one of
\* name, code, iso2, iso3 is supplied; with none, or with two or more, it is
\* rejected with a client error before any lookup.
C6_ExactlyOneSelectorAccepted ==
    Validated =>
       /\ (aphase # "rejected") <=> (NumSupplied(ain.country) = 1)
       /\ aphase = "rejected" =>
             /\ aparsed.status_code = 400
             /\ aout.queries = <<>>

\* C6 (amended): a country selector is rejected, with the client error
\* CountryParametrError (400) and before any lookup, exactly when none of
\* name, code, iso2, iso3 is supplied.
C6_RejectedIffNoSelector ==
    Validated =>
       /\ (aphase = "rejected") <=> (NumSupplied(ain.country) = 0)
       /\ aphase = "rejected" =>
             /\ aparsed.error = "CountryParametrError"
             /\ aparsed.status_code = 400
             /\ aout.queries = <<>>

\* C6 witness: a country object that supplies nothing has been rejected
C6_Witness ==
    /\ aphase = "rejected"
    /\ NumSupplied(ain.country) = 0
    /\ aparsed.status_code = 400

\* C7: resolution reports the first broken link only, in the order country,
\* state, city, and makes no lookup past the broken link.
C7_FirstBrokenLinkOnly ==
    aphase = "resolved" =>
       /\ CountriesNamed = {} =>
             /\ aout.kind = "CountryNotFoundError"
             /\ aout.queries = <<"countries">>
       /\ (CountriesNamed # {} /\ StatesNamedInCountry = {}) =>
             /\ aout.kind \in {"StateNotFoundError", "StateCountryMismatchError"}
             /\ aout.queries = <<"countries", "states">>
       /\ aout.kind \in {"CityNotFoundError", "CityStateMismatchError",
                         "CityCountryMismatchError"} =>
             /\ CountriesNamed # {}
             /\ StatesNamedInCountry # {}
             /\ aout.queries = <<"countries", "states", "cities">>

\* C7 witness: the country is unknown although state and city name a city
\* that exists, and the outcome is CountryNotFoundError
C7_Witness ==
    /\ aphase = "resolved"
    /\ CountriesNamed = {}
    /\ \E c \in CitiesNamed : \E s \in StatesNamed : c.state_id = s.id
    /\ aout.kind = "CountryNotFoundError"

\* C8: a State of the requested name that exists only under another country
\* gives StateCountryMismatchError; StateNotFoundError only when no State of
\* that name exists under any country.
C8_StateUnderOtherCountryIsMismatch ==
    (aphase = "resolved" /\ CountriesNamed # {}) =>
       /\ (StatesNamed # {} /\ StatesNamedInCountry = {}) =>
             aout.kind = "StateCountryMismatchError"
       /\ aout.kind = "StateNotFoundError" => StatesNamed = {}

\* C9: with country and state resolved, a City of the requested name that
\* exists only under another state gives CityStateMismatchError, one under the
\* resolved state with another country_id gives CityCountryMismatchError, and
\* CityNotFoundError only when no City of that name exists at all.
C9_CityUnderOtherParentIsMismatch ==
    (aphase = "resolved" /\ CountriesNamed # {} /\ StatesNamedInCountry # {}) =>
       /\ (CitiesNamed # {} /\ CitiesNamedInState = {}) =>
             aout.kind = "CityStateMismatchError"
       /\ (CitiesNamedInState # {} /\ CitiesNamedInStateAndCountry = {}) =>
             aout.kind = "CityCountryMismatchError"
       /\ aout.kind = "CityNotFoundError" => CitiesNamed = {}

\* The country objects that identify country c by a single selector
SingleSelectors(c) ==
    { [NoCountry EXCEPT !.name = c.name],
      [NoCountry EXCEPT !.code = c.code],
      [NoCountry EXCEPT !.iso2 = c.iso2],
      [NoCountry EXCEPT !.iso2 = lower(c.iso2)],
      [NoCountry EXCEPT !.iso3 = c.iso3],
      [NoCountry EXCEPT !.iso3 = lower(c.iso3)] }

\* C10: for every seeded Country and the same state and city names, the
\* resolution gives the same country_id, state_id and city_id whichever single
\* selector identifies the country (name, code, iso2 or iso3 in either case).
C10_SelectorsAgree ==
    \A c \in Countries :
        ain.country \in SingleSelectors(c) =>
           /\ aphase # "rejected"
           /\ aphase = "resolved" =>
                LET byName == check_if_country_state_city_exists(
                        [city |-> ain.city, state |-> ain.state,
                         country |-> [NoCountry EXCEPT !.name = c.name]])
                IN /\ aout.kind # "CountryNotFoundError"
                   /\ aout.kind = byName.kind
                   /\ aout.country_id = byName.country_id
                   /\ aout.state_id = byName.state_id
                   /\ aout.city_id = byName.city_id
                   /\ aout.kind = "AddressId" => aout.country_id = c.id

\* C10 witness: an address resolved through a lower-case iso3
C10_Witness ==
    /\ aphase = "resolved"
    /\ ain.country = [NoCountry EXCEPT !.iso3 = <<"c","a","n">>]
    /\ aout.kind = "AddressId"
    /\ CountryById(aout.country_id).name = "Canada"

(***************************************************************************)
(* Properties of carrier validation (specifications Spec, SpecCarrier).    *)
(***************************************************************************)
\* C11: when a submission names a carrier the registry does not hold, the
\* request ends as a structured HTTP 400 carrying CarrierNotFoundError, never
\* as a server error.
C11_UnknownCarrierIsClientError ==
    ( /\ pc = "done"
      /\ \E i \in DOMAIN body : \A c \in Carriers : c.name # body[i].carrier )
    => /\ response.status_code = 400
       /\ response.error = "CarrierNotFoundError"

\* The patterns of a carrier in every order
PatternOrders(carrier) ==
    LET pats == values(carrier.regex_tracking_number)
    IN {[i \in DOMAIN pats |-> pats[p[i]]] : p \in Permutations(DOMAIN pats)}

DateInstant(v) == utc_instant(IF v.aware THEN v ELSE replace_tzinfo_utc(v))

\* C13: a shipment_date that input validation accepts is not later than the
\* current time, with and without tzinfo; a date in the future is rejected
\* with ShipmentDateError.
C13_AcceptedDateNotInFuture ==
    dout # NoDateOutcome =>
       /\ dout.kind = "datetime" => DateInstant(din) <= dnow
       /\ DateInstant(din) > dnow => dout.kind = "ShipmentDateError"

(***************************************************************************)
(* Properties of GET /shipment/ (specification SpecGet).                   *)
(***************************************************************************)
\* The request passed the price check of the handler
Queried == gpc \in {"respond", "done"} /\ gresponse.status_code # 400

\* A shipment record satisfies every filter the query supplies
RecordSatisfies(r, q) ==
    /\ q.carriers # {} => r.carrier \in q.carriers
    /\ q.start_datetime # None => q.start_datetime <= r.shipment_date
    /\ q.end_datetime # None => r.shipment_date <= q.end_datetime
    /\ q.min_price # None => q.min_price <= r.price
    /\ q.max_price # None => r.price <= q.max_price

\* All stored shipments that satisfy the supplied filters, newest first
Matching ==
    LET n == Len(shipments)
        newestFirst == [k \in 1 .. n |->
                          ShipmentOut(shipments[n + 1 - k], addresses, packages)]
    IN SelectSeq(newestFirst, LAMBDA r : RecordSatisfies(r, query))

\* The part of the matching list the requested page covers
RequestedPage ==
    LET offset == (query.page - 1) * query.limit
    IN SubSeq(Matching, offset + 1,
              IF offset + query.limit < Len(Matching)
              THEN offset + query.limit ELSE Len(Matching))

\* C14: a GET with both prices supplied and min_price > max_price ends with
\* 400 and executes neither the count nor the data statement; no other
\* combination of the two prices ends with 400.
C14_PriceRangeGuard ==
    gpc = "done" =>
       IF /\ query.min_price # None
          /\ query.max_price # None
          /\ query.min_price > query.max_price
       THEN gresponse.status_code = 400 /\ statements = <<>>
       ELSE gresponse.status_code # 400

\* C14 witness: a finished request with min_price = 40 and max_price = 0
C14_Witness ==
    /\ gpc = "done"
    /\ query.min_price = 40
    /\ query.max_price = 0
    /\ gresponse.status_code = 400
    /\ shipments # <<>>

\* C15: each record a GET returns satisfies every supplied filter, for every
\* value of the accepted range (0 included), and no stored shipment that
\* satisfies the supplied filters is left out of the count.
C15_FiltersConjunctive ==
    Queried =>
       /\ \A k \in DOMAIN gshipments : RecordSatisfies(gshipments[k], query)
       /\ Len(Matching) <= total

\* C16: the records of a GET are exactly the shipments at positions
\* (page-1)*limit .. page*limit - 1 of the matching shipments ordered newest
\* first, and the total is the number of matching shipments, also when the
\* page lies beyond the data.
C16_PageIsSliceOfMatching ==
    (gpc = "done" /\ Queried) =>
       /\ gshipments = RequestedPage
       /\ total = Len(Matching)

\* C17: when no shipment matches the filters the response is 404 with "No
\* shipments found." on every page; when some match and the page (page > 1)
\* lies beyond them it is 404 with "No more shipments found."; when the page
\* holds at least one record it is 200.
C17_TwoNotFoundOutcomes ==
    (gpc = "done" /\ Queried) =>
       /\ Len(Matching) = 0 =>
             /\ gresponse.status_code = 404
             /\ gresponse.detail = "No shipments found."
       /\ (Len(Matching) > 0 /\ query.page > 1 /\ RequestedPage = <<>>) =>
             /\ gresponse.status_code = 404
             /\ gresponse.detail = "No more shipments found."
       /\ RequestedPage # <<>> => gresponse.status_code = 200

\* The country row the selector of a submitted address names
SelectedCountry(address) ==
    LET sp == get_search_params(address.country)
    IN CHOOSE c \in Countries : c[sp.field] = sp.value

C19_EveryShipmentOwnsPackage ==
    \A k \in DOMAIN shipments : PackagesOf(shipments[k].id) # {}

\* The persistence phase of the finished request ended with an exception
PersistenceFailed ==
    /\ pc = "done"
    /\ result # <<>>
    /\ response.status_code = 500
    /\ response.error \in {"AttributeError", "ValueError"}

\* C20: when the persistence phase fails at any submission of the batch, the
\* store afterwards equals the store before the request: no Address, Shipment
\* or Package of the batch is visible, those staged before the failure
\* included.
C20_PersistenceAllOrNothing ==
    PersistenceFailed =>
       /\ addresses = pre.addresses
       /\ shipments = pre.shipments
       /\ packages = pre.packages

\* C20 witness: the phase failed after it had staged the rows of an earlier
\* submission of the batch
C20_Witness ==
    /\ PersistenceFailed
    /\ LET tx == stage_items(result, cariers, 1, Session(pre))
       IN /\ tx.error = "AttributeError"
          /\ Len(tx.shipments) > Len(pre.shipments)
          /\ Len(tx.addresses) > Len(pre.addresses)
          /\ Len(tx.packages) > Len(pre.packages)

(***************************************************************************)
(* Properties of the country selector (specification SpecAddress).         *)
(***************************************************************************)
\* The first supplied field of a country object in the order name, code,
\* iso2, iso3
FirstSupplied(c) ==
    IF c.name # "" THEN "name"
    ELSE IF c.code # "" THEN "code"
    ELSE IF c.iso2 # <<>> THEN "iso2"
    ELSE "iso3"

\* C30: when a country object supplies several selector fields,
\* get_search_params gives the first supplied one in the order name, code,
\* iso2, iso3, and the country lookup goes by that field alone, whatever
\* country the other supplied fields name.
C30_FirstSelectorOnly ==
    aphase = "resolved" =>
       LET c == aparsed.value.country
           field == FirstSupplied(c)
           named == {x \in Countries : x[field] = c[field]}
       IN /\ get_search_params(c) = [field |-> field, value |-> c[field]]
          /\ (aout.kind = "CountryNotFoundError") <=> (named = {})
          /\ aout.kind = "AddressId" =>
                aout.country_id \in {x.id : x \in named}

\* C30 witness: an address resolved under Canada although its country object
\* also carries the code and the iso3 of the United States
C30_Witness ==
    /\ aphase = "resolved"
    /\ aparsed.value.country.name = "Canada"
    /\ aparsed.value.country.code = "840"
    /\ aparsed.value.country.iso3 = <<"U","S","A">>
    /\ aout.kind = "AddressId"
    /\ CountryById(aout.country_id).name = "Canada"

(***************************************************************************)
(* Properties of the two statements of GET /shipment/ (SpecGet).           *)
(***************************************************************************)
\* What the data statement of the request returns without offset and limit
UnpagedRows == stmt(shipments, [query EXCEPT !.page = 1,
                                             !.limit = Len(shipments) + 1])

\* C21: over a store that does not change during the request, the total the
\* count statement returned equals the number of shipments the data statement
\* returns without offset and limit, for every combination of filters.
C21_CountMatchesData ==
    Queried => total = Len(UnpagedRows)

\* C21 witness: a request with all four kinds of filter whose count is
\* smaller than the store
C21_Witness ==
    /\ Queried
    /\ query.carriers # {}
    /\ query.start_datetime # None
    /\ query.end_datetime # None
    /\ query.max_price = 40
    /\ total > 0
    /\ total < Len(shipments)

\* C22: the count statement runs before the data statement, and after a
\* count of zero the data statement is never executed: the result is the
\* empty list with total 0.
C22_CountFirstAndShortCircuit ==
    /\ statements \in {<<>>, <<"total_stmt">>, <<"total_stmt", "stmt">>}
    /\ (gpc \in {"data", "respond", "done"} /\ gresponse.status_code # 400)
          => statements # <<>>
    /\ (Queried /\ total = 0) =>
          statements = <<"total_stmt">> /\ gshipments = <<>>

\* C22 witness: a finished request over a store with shipments whose count
\* was zero
C22_Witness ==
    /\ gpc = "done"
    /\ shipments # <<>>
    /\ total = 0
    /\ statements = <<"total_stmt">>
    /\ gresponse.status_code = 404

\* The smallest number of pages of the given size that hold n records
RECURSIVE CeilDiv(_, _)
CeilDiv(n, size) == IF n <= 0 THEN 0 ELSE 1 + CeilDiv(n - size, size)

\* C25: in every 200 response last_page is ceil(total / limit), the number of
\* the last page that holds a record, and next_page is null exactly when
\* page equals last_page.
C25_LastPageIsCeiling ==
    (gpc = "done" /\ gresponse.status_code = 200) =>
       /\ gresponse.last_page = CeilDiv(gresponse.total, gresponse.limit)
       /\ (gresponse.next_page = None) <=> (gresponse.page = gresponse.last_page)

(***************************************************************************)
(* Properties of the order of work inside POST /shipment/ (Spec).          *)
(***************************************************************************)
\* The flushes made before position k of the request's session
Earlier(k) == {flushed[j] : j \in 1 .. (k - 1)}

\* C23: in the persistence of each submission the Address is flushed first,
\* then the Shipment with the id of that Address, then the Packages with the
\* id of that Shipment; no committed state holds a Shipment without its
\* Address or a Package without its Shipment.
C23_InsertOrder ==
    /\ \A k \in DOMAIN flushed :
          /\ flushed[k].table = "shipments" =>
                Flush("addresses", flushed[k].ref, 0, flushed[k].item)
                   \in Earlier(k)
          /\ flushed[k].table = "packages" =>
                \E f \in Earlier(k) :
                   /\ f.table = "shipments"
                   /\ f.id = flushed[k].ref
                   /\ f.item = flushed[k].item
    /\ \A k \in DOMAIN shipments :
          \E a \in DOMAIN addresses : addresses[a].id = shipments[k].address_id
    /\ \A k \in DOMAIN packages :
          \E n \in DOMAIN shipments : shipments[n].id = packages[k].shipment_id

\* C23 witness: a committed batch of two submissions, one with two packages
C23_Witness ==
    /\ pc = "done"
    /\ response.status_code = 201
    /\ Len(body) = 2
    /\ Len(flushed) >= 6
    /\ \E k \in DOMAIN flushed : flushed[k].table = "packages" /\ flushed[k].item = 2

\* The kinds of exception address resolution raises
AddressErrorKinds ==
    {"CountryNotFoundError", "StateNotFoundError", "CityNotFoundError",
     "StateCountryMismatchError", "CityStateMismatchError",
     "CityCountryMismatchError"}

StoreIsPre ==
    /\ addresses = pre.addresses
    /\ shipments = pre.shipments
    /\ packages = pre.packages

\* C27: carrier validation of every submission has finished before address
\* resolution starts, address resolution of every submission has finished
\* before the first write, and when an address resolution raises nothing of
\* the batch has been written: the store is the one before the request.
C27_PhasesInOrder ==
    /\ pc = "validate_carrier" =>
          cariers = <<>> /\ result = <<>> /\ flushed = <<>> /\ StoreIsPre
    /\ pc = "check_address" =>
          /\ Len(cariers) = Len(body)
          /\ result = <<>> /\ flushed = <<>> /\ StoreIsPre
    /\ pc = "create_in_db" =>
          /\ Len(cariers) = Len(body)
          /\ Len(result) = Len(body)
          /\ flushed = <<>> /\ StoreIsPre
    /\ (flushed # <<>> \/ ~ StoreIsPre) =>
          /\ pc = "done"
          /\ Len(cariers) = Len(body)
          /\ Len(result) = Len(body)
    /\ (pc = "done" /\ response.error \in AddressErrorKinds) =>
          /\ flushed = <<>>
          /\ StoreIsPre

\* C27 witness: a request over a store with shipments ended by the address
\* of its second submission, the first one being fully valid
C27_Witness ==
    /\ pc = "done"
    /\ Len(body) = 2
    /\ FullyValid(body[1])
    /\ CarrierOk(body[2])
    /\ response.error \in AddressErrorKinds
    /\ shipments # <<>>
    /\ StoreIsPre

\* C28: after a successful POST each new Shipment has the carrier_id of the
\* Carrier named by its own submission, an Address of its own built from its
\* own submission's address fields and resolved ids, and exactly the Packages
\* of its own submission's list.
C28_NoCrossWiring ==
    (pc = "done" /\ response.status_code = 201) =>
       LET s0 == Len(pre.shipments)
       IN \A i \in DOMAIN body :
            LET shipment == shipments[s0 + i]
                address == addresses[CHOOSE a \in DOMAIN addresses :
                                        addresses[a].id = shipment.address_id]
                resolved == check_if_country_state_city_exists(body[i].address)
                own == SelectSeq(packages,
                                 LAMBDA p : p.shipment_id = shipment.id)
            IN /\ CarrierById(shipment.carrier_id).name = body[i].carrier
               /\ shipment.shipment_number = body[i].shipment_number
               /\ address.postal_code = body[i].address.postal_code
               /\ address.address_line_1 = body[i].address.address_line_1
               /\ address.address_line_2 = body[i].address.address_line_2
               /\ address.city_id = resolved.city_id
               /\ address.state_id = resolved.state_id
               /\ address.country_id = resolved.country_id
               /\ \A n \in DOMAIN shipments :
                     n # s0 + i => shipments[n].address_id # shipment.address_id
               /\ [k \in DOMAIN own |-> own[k].weight] = body[i].packages

\* C28 witness: a committed batch of three that mixes two carriers and
\* repeats one of them
C28_Witness ==
    /\ pc = "done"
    /\ response.status_code = 201
    /\ Len(body) = 3
    /\ body[1].carrier = "fedex"
    /\ body[2].carrier = "ups"
    /\ body[3] = body[2]

(***************************************************************************)
(* Properties of a GET beside POST requests (SpecConcurrent).              *)
(***************************************************************************)
\* C26: whenever a GET that ran beside committing POST requests answers 200,
\* items <= limit and (page - 1) * limit + items <= total, and no GET holds
\* a count of 0 together with rows.
C26_ResponseConsistentUnderCommits ==
    /\ gresponse.status_code = 200 =>
          /\ gresponse.items <= gresponse.limit
          /\ (gresponse.page - 1) * gresponse.limit + gresponse.items
                <= gresponse.total
    /\ gpc \in {"respond", "done"} /\ total = 0 => gshipments = <<>>

\* The rows a GET may return from the committed store
CommittedRecords ==
    {ShipmentOut(shipments[j], addresses, packages) : j \in DOMAIN shipments}

\* C29: every Shipment a GET holds or has returned is a Shipment of a
\* committed batch, with the Address and all the Packages the committed
\* store holds for it; no row of an open or rolled-back session is among
\* them.
C29_OnlyCommittedShipments ==
    /\ \A k \in DOMAIN gshipments : gshipments[k] \in CommittedRecords
    /\ gresponse.status_code = 200 =>
          \A k \in DOMAIN gresponse.records :
             gresponse.records[k] \in CommittedRecords
    /\ \A j \in DOMAIN shipments :
          /\ shipments[j].address_id \in DOMAIN addresses
          /\ \A n \in DOMAIN body :
                (pc = "done" /\ response.status_code = 201
                   /\ j = Len(pre.shipments) + n)
                => Len(ShipmentOut(shipments[j], addresses, packages).packages)
                      = Len(body[n].packages)

\* A GET has run its data statement and holds rows while the session of a
\* POST holds flushed rows that are not committed
C29_Witness ==
    /\ session.open
    /\ Len(session.tx.shipments) > Len(shipments)
    /\ gpc \in {"respond", "done"}
    /\ gshipments # <<>>
    /\ statements = <<"total_stmt", "stmt">>

(***************************************************************************)
(* The reference data on the request path (SpecConcurrent).                *)
(***************************************************************************)
\* What carrier validation gives for the body of the request when it is run
\* now
CarriersNow == [i \in DOMAIN body |-> validate_carrier(body[i])]

\* C24: carrier validation, address resolution, GET and POST leave
\* Countries, States, Cities and Carriers as they were seeded; carrier
\* validation and address resolution write nothing (the store is the one
\* the request found and no session holds a row); and running either of
\* them again on the same body gives the outcome the request recorded.
C24_ReferenceDataReadOnly ==
    /\ reference = SeedReference
    /\ pc \in {"validate_carrier", "check_address", "create_in_db"} =>
          StoreIsPre /\ ~ session.open /\ flushed = <<>>
    /\ (pc = "done" /\ response.status_code \notin {200, 201}
          /\ flushed = <<>>) => StoreIsPre
    /\ pc \in {"check_address", "create_in_db", "commit", "rollback"} =>
          cariers = CarriersNow
    /\ pc \in {"create_in_db", "commit", "rollback"} =>
          /\ gather_addresses(body).raised = {}
          /\ result = gather_addresses(body).result
    /\ (pc = "done" /\ response.status_code \in {200, 201}) =>
          /\ cariers = CarriersNow
          /\ result = gather_addresses(body).result
    /\ (pc = "done" /\ response.error \in AddressErrorKinds) =>
          /\ cariers = CarriersNow
          /\ \E e \in gather_addresses(body).raised : e.kind = response.error
    /\ (pc = "done" /\ response.error = "TypeError") =>
          \E i \in DOMAIN body : CarriersNow[i].raised

\* C24 witness: a POST has ended on an address that does not resolve after
\* an earlier POST was committed and a GET was answered, and the reference
\* data is the seeded one
C24_Witness ==
    /\ pc = "done"
    /\ response.error \in AddressErrorKinds
    /\ shipments # <<>>
    /\ gpc = "done"
    /\ gresponse.status_code = 200
    /\ reference = SeedReference

====
